---- MODULE Spec2Model ----
\* Model of the PDF -> Markdown conversion pipeline of main.ts
\* (PDF2MDWithGemini.convertFile) and of its pure helpers: the fence
\* stripping post-processor and the output path mapping.
\* Text is modelled as a sequence of one-character strings; "LF" and "CR"
\* stand for the line feed and carriage return characters, "TAB" for a tab,
\* "BT" for the backtick.
EXTENDS Integers, Sequences, FiniteSets, TLC

\* ---------------------------------------------------------------------
\* Character-level helpers
\* ---------------------------------------------------------------------

Fence == <<"BT", "BT", "BT">>

MdTag == <<"m", "a", "r", "k", "d", "o", "w", "n">>

Drop(s, n) == SubSeq(s, n + 1, Len(s))

StartsWith(s, t) == Len(s) >= Len(t) /\ SubSeq(s, 1, Len(t)) = t

MinOf(S) == CHOOSE i \in S : \A j \in S : i <= j

RECURSIVE Join(_)
Join(parts) == IF parts = <<>> THEN <<>> ELSE Head(parts) \o Join(Tail(parts))

Contains(s, t) == \E i \in 1..(Len(s) - Len(t) + 1) : SubSeq(s, i, i + Len(t) - 1) = t

\* String.prototype.trim: removes leading and trailing WhiteSpace and
\* LineTerminator code points: TAB, VT, FF, SP, NBSP (U+00A0), ZWNBSP
\* (U+FEFF), the other Zs code points (one token "ZS" stands for them), LF,
\* CR, LS (U+2028) and PS (U+2029).
WhiteSpace == {"TAB", "VT", "FF", " ", "NBSP", "ZWNBSP", "ZS", "LF", "CR", "LS", "PS"}

RECURSIVE TrimStart(_)
TrimStart(s) == IF s # <<>> /\ Head(s) \in WhiteSpace THEN TrimStart(Tail(s)) ELSE s

RECURSIVE TrimEnd(_)
TrimEnd(s) == IF s # <<>> /\ s[Len(s)] \in WhiteSpace
              THEN TrimEnd(SubSeq(s, 1, Len(s) - 1)) ELSE s

TrimNothing(s) == s

Trim(s) == TrimEnd(TrimStart(s))

\* ---------------------------------------------------------------------
\* markdown.replace(/^```(?:markdown)?\r?\n?/, '').replace(/\r?\n?```$/, '')
\* ---------------------------------------------------------------------

\* First replacement: anchored at position 1; the optional groups are greedy
\* and nothing follows them, so each is taken exactly when present.
StripLeading(s) ==
  IF StartsWith(s, Fence)
  THEN LET s1 == Drop(s, 3)
           s2 == IF StartsWith(s1, MdTag) THEN Drop(s1, Len(MdTag)) ELSE s1
           s3 == IF StartsWith(s2, <<"CR">>) THEN Drop(s2, 1) ELSE s2
           s4 == IF StartsWith(s3, <<"LF">>) THEN Drop(s3, 1) ELSE s3
       IN s4
  ELSE s

\* The texts \r?\n?``` can match, followed by the end of the input.
TrailForms == {Fence, <<"LF">> \o Fence, <<"CR">> \o Fence, <<"CR", "LF">> \o Fence}

StripTrailingFenceOnly(s) ==
  LET M == {i \in 1..Len(s) : SubSeq(s, i, Len(s)) = Fence}
  IN IF M = {} THEN s ELSE SubSeq(s, 1, MinOf(M) - 1)

StripTrailingOptionalFence(s) ==
  LET M == {i \in 1..(Len(s) + 1) :
              SubSeq(s, i, Len(s)) \in TrailForms \cup {<<>>, <<"CR">>, <<"LF">>, <<"CR", "LF">>}}
  IN SubSeq(s, 1, MinOf(M) - 1)

\* Second replacement: the leftmost position from which the pattern matches
\* up to the end of the input; the match is removed.
StripTrailing(s) ==
  LET M == {i \in 1..Len(s) : SubSeq(s, i, Len(s)) \in TrailForms}
  IN IF M = {} THEN s ELSE SubSeq(s, 1, MinOf(M) - 1)

Strip(s) == StripTrailing(StripLeading(s))

\* ---------------------------------------------------------------------
\* file.path.replace(/\.pdf$/i, '.md')
\* ---------------------------------------------------------------------

Lower(c) == CASE c = "P" -> "p" [] c = "D" -> "d" [] c = "F" -> "f" [] OTHER -> c

LowerSeq(s) == [i \in 1..Len(s) |-> Lower(s[i])]

PdfExt == <<".", "p", "d", "f">>

MdExt == <<".", "m", "d">>

ToMdCaseSensitive(path) ==
  LET M == {i \in 1..Len(path) : SubSeq(path, i, Len(path)) = PdfExt}
  IN IF M = {} THEN path
     ELSE SubSeq(path, 1, MinOf(M) - 1) \o MdExt \o SubSeq(path, MinOf(M) + Len(PdfExt), Len(path))

ToMd(path) ==
  LET M == {i \in 1..Len(path) :
              /\ Len(SubSeq(path, i, Len(path))) = Len(PdfExt)
              /\ LowerSeq(SubSeq(path, i, Len(path))) = PdfExt}
  IN IF M = {} THEN path
     ELSE SubSeq(path, 1, MinOf(M) - 1) \o MdExt \o SubSeq(path, MinOf(M) + Len(PdfExt), Len(path))

\* ---------------------------------------------------------------------
\* Inputs of an invocation: the vault, the settings and remote responses
\* ---------------------------------------------------------------------

\* Two conversion tasks, started from the file menu on the same file r.pdf,
\* so both write to r.md.
Procs == {"p1", "p2"}

Src == [p \in Procs |-> <<"r", ".", "p", "d", "f">>]

\* TFile.extension: the text after the last dot of the file name
Extension(path) ==
  LET D == {i \in 1..Len(path) : path[i] = "."}
  IN IF D = {} THEN <<>>
     ELSE SubSeq(path, (CHOOSE i \in D : \A j \in D : j <= i) + 1, Len(path))

OutPaths == {ToMd(Src[p]) : p \in Procs}

IsOkBelow600(status) == status >= 200 /\ status < 600

\* Response.ok: status in the range 200-299.
IsOk(status) == status >= 200 /\ status <= 299

Statuses == {200, 500}

ApiKeys == {<<>>, <<"FF", "TAB">>, <<" ", "k", "NBSP">>}

Title == <<"#", " ", "T", "i", "t", "l", "e">>

FencedTitle == Fence \o MdTag \o <<"LF">> \o Title \o <<"LF">> \o Fence

\* candidates[0].content.parts[*].text
GenTexts == {<<FencedTitle>>, <<Title, <<"LF">>>>}

OldContent == <<"o", "l", "d">>

NoStart == [net |-> FALSE, status |-> -1, url |-> FALSE]

StartResps == {[net |-> FALSE, status |-> 0, url |-> FALSE]}
              \cup [net : {TRUE}, status : Statuses, url : BOOLEAN]

NoUpload == [net |-> FALSE, status |-> -1, body |-> "none"]

\* uploadText: {"file":{"uri":..}}, {"file":{}}, {}, or not JSON at all
UploadBodies == {"uri", "emptyUri", "noFile", "notJson"}

UploadResps == {[net |-> FALSE, status |-> 0, body |-> "none"],
                [net |-> TRUE, status |-> 500, body |-> "error"]}
               \cup [net : {TRUE}, status : {200}, body : UploadBodies]

NoBody == [kind |-> "none", parts |-> <<>>]

\* generateText: not JSON, no candidates key, candidates: [], a candidate
\* without content, or a candidate whose parts carry the given texts
GenBodies == [kind : {"notJson", "noCandidates", "emptyCandidates", "noContent"}, parts : {<<>>}]
             \cup [kind : {"candidates"}, parts : GenTexts]

NoGen == [net |-> FALSE, status |-> -1, body |-> NoBody]

GenResps == {[net |-> FALSE, status |-> 0, body |-> NoBody],
             [net |-> TRUE, status |-> 500, body |-> [kind |-> "error", parts |-> <<>>]]}
            \cup [net : {TRUE}, status : {200}, body : GenBodies]

VaultEntries == {[kind |-> "none", content |-> <<>>],
                 [kind |-> "file", content |-> OldContent],
                 [kind |-> "folder", content |-> <<>>]}

NoPending == [op |-> "none", path |-> <<>>, found |-> "unset", content |-> <<>>]

IsTFileNever(entry) == FALSE

\* existing instanceof TFile
IsTFile(entry) == entry.kind = "file"

NoCandidatesMissingOnly(body) == body.kind = "noCandidates"

\* !candidates?.length : a missing candidates key or an empty array
NoCandidates(body) == body.kind \in {"noCandidates", "emptyCandidates"}

Notice(k, st, bd, msg) == [k |-> k, st |-> st, bd |-> bd, msg |-> msg]

Progress(k) == Notice(k, 0, "", "")

\* new Notice(`Error converting file: ${error.message}`) in the catch block
ErrorNotice(msg) == Notice("ErrorConverting", 0, "", msg)

\* No key observed yet.
NoKey == <<"none">>
\* Slider positions of the settings tab are kept in thousandths.
\* Numbers of the settings tab are kept in thousandths.
Scale == 1000

\* A JavaScript number: NaN, +/-Infinity (inf = 1 / -1), or the exact value
\* (-1)^neg * 0.d1 d2 ... dn * 10^ex of a finite double, with d1 # 0 and
\* dn # 0 (ds = <<>> for zero, whose sign is kept in neg). Non-negative
\* integers of any size are sequences of decimal digits, most significant
\* first; all recursion over them halves its argument, so its depth stays
\* logarithmic.
ZeroDigits(n) == [i \in 1..n |-> 0]

LeadingZeros(ds) ==
  CHOOSE k \in 0..Len(ds) : (\A j \in 1..k : ds[j] = 0) /\ (k = Len(ds) \/ ds[k + 1] # 0)

TrailingZeros(ds) ==
  CHOOSE k \in 0..Len(ds) :
    (\A j \in (Len(ds) - k + 1)..Len(ds) : ds[j] = 0) /\ (k = Len(ds) \/ ds[Len(ds) - k] # 0)

StripZeros(ds) == SubSeq(ds, LeadingZeros(ds) + 1, Len(ds))

NormNum(neg, ds, ex) ==
  LET lz == LeadingZeros(ds)
      tz == IF lz = Len(ds) THEN 0 ELSE TrailingZeros(ds)
      t == SubSeq(ds, lz + 1, Len(ds) - tz)
  IN [nan |-> FALSE, inf |-> 0, neg |-> neg, ds |-> t, ex |-> IF t = <<>> THEN 0 ELSE ex - lz]

NaNValue == [nan |-> TRUE, inf |-> 0, neg |-> FALSE, ds |-> <<>>, ex |-> 0]

InfValue(neg) == [nan |-> FALSE, inf |-> IF neg THEN -1 ELSE 1, neg |-> neg, ds |-> <<>>, ex |-> 0]

RECURSIVE DecimalDigits(_)
DecimalDigits(k) == IF k < 10 THEN <<k>> ELSE Append(DecimalDigits(k \div 10), k % 10)

\* ds * k + c, as the Len(ds) low digits and the carry out (c < k). The
\* carry of the low half is computed before the high half is entered, so
\* the evaluation never nests deeper than the halving.
RECURSIVE MulRec(_, _, _), MulJoin(_, _, _)
MulRec(ds, k, c) ==
  IF ds = <<>> THEN [ds |-> <<>>, c |-> c]
  ELSE IF Len(ds) = 1 THEN [ds |-> <<(ds[1] * k + c) % 10>>, c |-> (ds[1] * k + c) \div 10]
  ELSE MulJoin(SubSeq(ds, 1, Len(ds) \div 2), k,
               MulRec(SubSeq(ds, Len(ds) \div 2 + 1, Len(ds)), k, c))

MulCombine(hi, lo) == [ds |-> hi.ds \o lo.ds, c |-> hi.c]

\* hi * k + lo.c above the low half lo already multiplied.
MulJoin(hi, k, lo) == IF lo.c < 0 THEN lo ELSE MulCombine(MulRec(hi, k, lo.c), lo)

MulOut(r) == StripZeros(DecimalDigits(r.c) \o r.ds)

MulAdd(ds, k, c) == MulOut(MulRec(ds, k, c))

\* ds * b^n for b \in {2, 5}, at most 2^26 or 5^11 per digit pass.
MulPowChunk(b) == IF b = 2 THEN 26 ELSE 11

RECURSIVE MulPow(_, _, _), MulPowRest(_, _, _)
MulPow(ds, b, n) ==
  IF n <= MulPowChunk(b) THEN MulAdd(ds, b ^ n, 0)
  ELSE MulPowRest(MulPow(ds, b, n \div 2), b, n - n \div 2)

MulPowRest(half, b, n) == IF half = <<>> THEN half ELSE MulPow(half, b, n)

Pow2Digits(n) == MulPow(<<1>>, 2, n)

\* Comparison of digit sequences padded with zeros on the right: -1, 0, 1.
PadDigit(x, i) == IF i <= Len(x) THEN x[i] ELSE 0

RECURSIVE CmpFrom(_, _, _, _)
CmpFrom(x, y, lo, hi) ==
  IF lo > hi THEN 0
  ELSE IF lo = hi
  THEN IF PadDigit(x, lo) < PadDigit(y, lo) THEN -1
       ELSE IF PadDigit(x, lo) > PadDigit(y, lo) THEN 1 ELSE 0
  ELSE LET mid == (lo + hi) \div 2
           l == CmpFrom(x, y, lo, mid)
       IN IF l # 0 THEN l ELSE CmpFrom(x, y, mid + 1, hi)

CmpDigits(x, y) == CmpFrom(x, y, 1, IF Len(x) > Len(y) THEN Len(x) ELSE Len(y))

\* Comparison of two integers given without leading zeros.
CmpInt(x, y) ==
  IF Len(x) < Len(y) THEN -1 ELSE IF Len(x) > Len(y) THEN 1 ELSE CmpDigits(x, y)

\* Comparison of the magnitudes of two finite numbers.
CmpMag(a, b) ==
  IF a.ds = <<>> /\ b.ds = <<>> THEN 0
  ELSE IF a.ds = <<>> THEN -1
  ELSE IF b.ds = <<>> THEN 1
  ELSE IF a.ex < b.ex THEN -1
  ELSE IF a.ex > b.ex THEN 1
  ELSE CmpDigits(a.ds, b.ds)

\* Round-to-nearest, ties-to-even, into a double: magnitudes from
\* 2^1024 - 2^970 (halfway between the largest double and 2^1024) up become
\* Infinity; magnitudes up to 2^-1075 (half the least subnormal) become 0.
\* (Below 10^308 no number reaches the first bound, above 10^-307 none the
\* second.)
OverflowBound ==
  LET d == MulPow(MulAdd(DecimalDigits(2 ^ 27 - 1), 2 ^ 27 + 1, 0), 2, 970)
  IN NormNum(FALSE, d, Len(d))

UnderflowBound == LET d == MulPow(<<1>>, 5, 1075) IN NormNum(FALSE, d, Len(d) - 1075)

\* The integer g * 10^e divided by 2^q, as g' * 10^f.
Scaled(g, e, q) ==
  IF q <= 0 THEN [g |-> MulPow(g, 2, -q), f |-> e] ELSE [g |-> MulPow(g, 5, q), f |-> e - q]

IntPart(x) ==
  IF x.f >= 0 THEN x.g \o ZeroDigits(x.f)
  ELSE IF Len(x.g) + x.f > 0 THEN SubSeq(x.g, 1, Len(x.g) + x.f) ELSE <<>>

FracPart(x) ==
  IF x.f >= 0 THEN <<>>
  ELSE IF Len(x.g) + x.f >= 0 THEN SubSeq(x.g, Len(x.g) + x.f + 1, Len(x.g))
  ELSE ZeroDigits(-x.f - Len(x.g)) \o x.g

RoundUp(i, r) ==
  r # <<>> /\ (r[1] > 5 \/ (r[1] = 5 /\ ((\E j \in 2..Len(r) : r[j] # 0) \/ (i # <<>> /\ i[Len(i)] % 2 = 1))))

RoundHalfEvenOf(i, r) == IF RoundUp(i, r) THEN MulAdd(i, 1, 1) ELSE i

RoundHalfEven(x) == RoundHalfEvenOf(IntPart(x), FracPart(x))

\* Number of bits of a positive integer i with 2^49 <= i < 2^64.
BitLen(i) ==
  CHOOSE l \in 50..64 : CmpInt(Pow2Digits(l - 1), i) <= 0 /\ CmpInt(i, Pow2Digits(l)) < 0

\* The double nearest to a finite number n. The binary exponent b of n
\* (2^b <= |n| < 2^(b+1)) is found from the estimate
\* b0 = floor((ex - 1) * 3.321928) (3.321928 < log2 10 by less than 10^-7)
\* by counting the bits of |n| / 2^(b0 - 53); the significand
\* m = round(|n| / 2^q) has 53 bits, fewer below 2^-1022, and the result is
\* m * 2^q written out exactly.
ExactDigits(neg, d, shift) == NormNum(neg, d, Len(d) + shift)

ExactDouble(neg, m, q) ==
  IF q >= 0 THEN ExactDigits(neg, MulPow(m, 2, q), 0) ELSE ExactDigits(neg, MulPow(m, 5, -q), q)

RoundAt(n, q) == ExactDouble(n.neg, RoundHalfEven(Scaled(n.ds, n.ex - Len(n.ds), q)), q)

SignificandExponent(b) == IF b - 52 < -1074 THEN -1074 ELSE b - 52

BinaryExponent(n, q0) == q0 + BitLen(IntPart(Scaled(n.ds, n.ex - Len(n.ds), q0))) - 1

ToDouble(n) ==
  IF n.ds = <<>> THEN n
  ELSE IF n.ex > 308 /\ CmpMag(n, OverflowBound) >= 0 THEN InfValue(n.neg)
  ELSE IF n.ex < -306 /\ CmpMag(n, UnderflowBound) <= 0 THEN NormNum(n.neg, <<>>, 0)
  ELSE RoundAt(n, SignificandExponent(BinaryExponent(n, ((n.ex - 1) * 3321928) \div 1000000 - 53)))

\* The slider value k * 0.1 (slider values are multiples of the step).
FromTenths(k) == ToDouble(NormNum(FALSE, DecimalDigits(k), Len(DecimalDigits(k)) - 1))

\* DEFAULT_SETTINGS.temperature: 0.5
DefaultTemperature == 500

\* ---------------------------------------------------------------------
\* State
\* ---------------------------------------------------------------------

VARIABLES
  pc,          \* position of each convertFile task
  apiKey,      \* settings.apiKey
  notices,     \* notices shown by each task, in order
  calls,       \* network calls issued by each task, in order
  startResp,   \* response of the session-start call
  uploadResp,  \* response of the upload/finalize call
  genResp,     \* response of the generateContent call
  pending,     \* the vault write a task is awaiting
  vault,       \* the vault entry at each output path
  writes,      \* completed vault writes, in order
  keyAtInvoke, \* settings.apiKey when each task was started
  keyRead,     \* settings.apiKey as read by each task after readBinary
  sx,          \* input text of the post-processor
  sr1,         \* strip(sx)
  sr2,         \* strip(strip(sx))
  swr,         \* strip(wrap(sx))
  px,          \* input path of the path mapping
  pout,        \* file.path.replace(/\.pdf$/i, '.md') on px
  fnPhase,     \* steps taken by the pure-function harness
  temperature, \* settings.temperature
  sliderVal    \* value held by the temperature slider, in thousandths

pipeVars == <<pc, apiKey, notices, calls, startResp, uploadResp, genResp, pending, vault, writes,
             keyAtInvoke, keyRead>>

fnVars == <<sx, sr1, sr2, swr, px, pout, fnPhase>>

setVars == <<temperature, sliderVal>>

vars == <<pipeVars, fnVars, setVars>>

PipeInit ==
  /\ pc = [p \in Procs |-> "idle"]
  /\ apiKey \in ApiKeys
  /\ notices = [p \in Procs |-> <<>>]
  /\ calls = [p \in Procs |-> <<>>]
  /\ startResp = [p \in Procs |-> NoStart]
  /\ uploadResp = [p \in Procs |-> NoUpload]
  /\ genResp = [p \in Procs |-> NoGen]
  /\ pending = [p \in Procs |-> NoPending]
  /\ vault \in [OutPaths -> VaultEntries]
  /\ writes = <<>>
  /\ keyAtInvoke = [p \in Procs |-> NoKey] /\ keyRead = [p \in Procs |-> NoKey]
  /\ sx = <<>> /\ sr1 = <<>> /\ sr2 = <<>> /\ swr = <<>>
  /\ px = <<>> /\ pout = <<>> /\ fnPhase = "none"
  /\ temperature = FromTenths(DefaultTemperature \div (Scale \div 10)) /\ sliderVal = DefaultTemperature

Say(p, ns) == notices' = [notices EXCEPT ![p] = @ \o ns]

Call(p, c) == calls' = [calls EXCEPT ![p] = Append(@, c)]

Finish(p) == pc' = [pc EXCEPT ![p] = "done"]

\* new Notice(`Converting ...`); await this.app.vault.readBinary(file)
\* The menu item exists only for files whose extension is exactly 'pdf'.
Invoke(p) ==
  /\ pc[p] = "idle"
  /\ Extension(Src[p]) = <<"p", "d", "f">>
  /\ pc' = [pc EXCEPT ![p] = "reading"]
  /\ keyAtInvoke' = [keyAtInvoke EXCEPT ![p] = apiKey]
  /\ Say(p, <<Progress("Converting")>>)
  /\ UNCHANGED <<apiKey, calls, startResp, uploadResp, genResp, pending, vault, writes, keyRead>>

\* readBinary settles; the API key check; the session-start fetch is issued.
ReadBinary(p) ==
  /\ pc[p] = "reading"
  /\ \E readOk \in BOOLEAN :
     /\ keyRead' = [keyRead EXCEPT ![p] = IF readOk THEN apiKey ELSE NoKey]
     /\ IF ~readOk
         THEN /\ Say(p, <<ErrorNotice("ReadError")>>)
              /\ Finish(p)
              /\ UNCHANGED calls
         ELSE IF Trim(apiKey) = <<>>
         THEN /\ Say(p, <<Progress("SetApiKey")>>)
              /\ Finish(p)
              /\ UNCHANGED calls
         ELSE /\ Call(p, "start")
              /\ pc' = [pc EXCEPT ![p] = "starting"]
              /\ UNCHANGED notices
  /\ UNCHANGED <<apiKey, startResp, uploadResp, genResp, pending, vault, writes, keyAtInvoke>>

\* startResponse and startResponse.text() settle (a rejected fetch is caught).
StartRespond(p) ==
  /\ pc[p] = "starting"
  /\ \E r \in StartResps :
       /\ startResp' = [startResp EXCEPT ![p] = r]
       /\ IF ~r.net
          THEN /\ Say(p, <<ErrorNotice("NetworkError")>>) /\ Finish(p) /\ UNCHANGED calls
          ELSE IF ~IsOk(r.status)
          THEN /\ Say(p, <<Notice("UploadStartFailed", r.status, "startText", "")>>)
               /\ Finish(p) /\ UNCHANGED calls
          ELSE IF ~r.url
          THEN /\ Say(p, <<Progress("SessionStarted"), Progress("NoUploadUrl")>>)
               /\ Finish(p) /\ UNCHANGED calls
          ELSE /\ Say(p, <<Progress("SessionStarted"), Progress("Uploading")>>)
               /\ Call(p, "upload")
               /\ pc' = [pc EXCEPT ![p] = "uploading"]
  /\ UNCHANGED <<apiKey, uploadResp, genResp, pending, vault, writes, keyAtInvoke, keyRead>>

\* uploadResponse and uploadResponse.text() settle; JSON.parse(uploadText)
\* and fileInfo.file.uri; the generateContent fetch is issued.
UploadRespond(p) ==
  /\ pc[p] = "uploading"
  /\ \E r \in UploadResps :
       /\ uploadResp' = [uploadResp EXCEPT ![p] = r]
       /\ IF ~r.net
          THEN /\ Say(p, <<ErrorNotice("NetworkError")>>) /\ Finish(p) /\ UNCHANGED calls
          ELSE IF ~IsOk(r.status)
          THEN /\ Say(p, <<Notice("UploadContentFailed", r.status, "uploadText", "")>>)
               /\ Finish(p) /\ UNCHANGED calls
          ELSE IF r.body = "notJson"
          THEN /\ Say(p, <<Progress("FileUploaded"), ErrorNotice("SyntaxError")>>)
               /\ Finish(p) /\ UNCHANGED calls
          ELSE IF r.body = "noFile"
          \* fileInfo.file is undefined: reading .uri throws a TypeError
          THEN /\ Say(p, <<Progress("FileUploaded"), ErrorNotice("TypeError")>>)
               /\ Finish(p) /\ UNCHANGED calls
          ELSE IF r.body = "emptyUri"
          THEN /\ Say(p, <<Progress("FileUploaded"), Progress("NoFileUri")>>)
               /\ Finish(p) /\ UNCHANGED calls
          ELSE /\ Say(p, <<Progress("FileUploaded"), Progress("Waiting")>>)
               /\ Call(p, "generate")
               /\ pc' = [pc EXCEPT ![p] = "generating"]
  /\ UNCHANGED <<apiKey, startResp, genResp, pending, vault, writes, keyAtInvoke, keyRead>>

\* generateResponse and generateResponse.text() settle; candidates are read,
\* joined and fence-stripped; the output path is computed and looked up
\* (getAbstractFileByPath is synchronous); vault.modify or vault.create is
\* started.
GenRespond(p) ==
  /\ pc[p] = "generating"
  /\ \E r \in GenResps :
       /\ genResp' = [genResp EXCEPT ![p] = r]
       /\ IF ~r.net
          THEN /\ Say(p, <<ErrorNotice("NetworkError")>>) /\ Finish(p) /\ UNCHANGED pending
          ELSE IF ~IsOk(r.status)
          THEN /\ Say(p, <<Notice("GenerateFailed", r.status, "generateText", "")>>)
               /\ Finish(p) /\ UNCHANGED pending
          ELSE IF r.body.kind = "notJson"
          THEN /\ Say(p, <<Progress("ResponseReceived"), ErrorNotice("SyntaxError")>>)
               /\ Finish(p) /\ UNCHANGED pending
          ELSE IF NoCandidates(r.body)
          \* if (!candidates?.length) throw new Error('No candidates returned')
          THEN /\ Say(p, <<Progress("ResponseReceived"), ErrorNotice("No candidates returned")>>)
               /\ Finish(p) /\ UNCHANGED pending
          \* candidates[0].content is undefined: reading .parts throws
          ELSE IF r.body.kind # "candidates"
          THEN /\ Say(p, <<Progress("ResponseReceived"), ErrorNotice("TypeError")>>)
               /\ Finish(p) /\ UNCHANGED pending
          ELSE LET markdown == Strip(Join(r.body.parts))
                   newPath == ToMd(Src[p])
                   existing == IsTFile(vault[newPath])
               IN /\ Say(p, <<Progress("ResponseReceived")>>)
                  /\ pending' = [pending EXCEPT ![p] =
                                   [op |-> IF existing THEN "modify" ELSE "create",
                                    path |-> newPath, found |-> vault[newPath].kind,
                                    content |-> markdown]]
                  /\ pc' = [pc EXCEPT ![p] = "writing"]
  /\ UNCHANGED <<apiKey, calls, startResp, uploadResp, vault, writes, keyAtInvoke, keyRead>>

\* vault.modify / vault.create settles. vault.create checks for an existing
\* entry when it is called, in the same synchronous step as the lookup, and
\* rejects then; it does not check again when its write settles, so a file
\* created meanwhile by another task is overwritten.
WriteModifyKeepsOld(p) ==
  /\ pc[p] = "writing"
  /\ LET w == pending[p]
     IN IF w.op = "create" /\ w.found # "none"
        THEN /\ Say(p, <<ErrorNotice("FileExists")>>)
             /\ UNCHANGED <<vault, writes>>
        ELSE /\ vault' = IF w.op = "modify" THEN vault
                         ELSE [vault EXCEPT ![w.path] = [kind |-> "file", content |-> w.content]]
             /\ writes' = Append(writes, [p |-> p, op |-> w.op, path |-> w.path,
                                         found |-> w.found, content |-> w.content])
             /\ Say(p, <<Progress("Converted")>>)
  /\ Finish(p)
  /\ UNCHANGED <<apiKey, calls, startResp, uploadResp, genResp, pending, keyAtInvoke, keyRead>>

Write(p) ==
  /\ pc[p] = "writing"
  /\ LET w == pending[p]
     IN IF w.op = "create" /\ w.found # "none"
        THEN /\ Say(p, <<ErrorNotice("FileExists")>>)
             /\ UNCHANGED <<vault, writes>>
        ELSE /\ vault' = [vault EXCEPT ![w.path] = [kind |-> "file", content |-> w.content]]
             /\ writes' = Append(writes, [p |-> p, op |-> w.op, path |-> w.path,
                                         found |-> w.found, content |-> w.content])
             /\ Say(p, <<Progress("Converted")>>)
  /\ Finish(p)
  /\ UNCHANGED <<apiKey, calls, startResp, uploadResp, genResp, pending, keyAtInvoke, keyRead>>

\* API Key text field onChange: this.plugin.settings.apiKey = value
SetApiKeyField ==
  /\ \E value \in ApiKeys : apiKey' = value
  /\ UNCHANGED <<pc, notices, calls, startResp, uploadResp, genResp, pending, vault, writes,
                 keyAtInvoke, keyRead>>

PipeNext ==
  \/ SetApiKeyField
  \/ \E p \in Procs :
    \/ Invoke(p)
    \/ ReadBinary(p)
    \/ StartRespond(p)
    \/ UploadRespond(p)
    \/ GenRespond(p)
    \/ Write(p)

Spec == PipeInit /\ [][PipeNext /\ UNCHANGED <<fnVars, setVars>>]_vars

\* ---------------------------------------------------------------------
\* Harnesses for the pure helpers
\* ---------------------------------------------------------------------

MaxPieces == 4

RECURSIVE Words(_, _)
Words(P, n) == IF n = 0 THEN {<<>>}
               ELSE Words(P, n - 1) \cup {w \o q : w \in Words(P, n - 1), q \in P}

TextPieces == {Fence, MdTag, <<"LF">>, <<"CR">>, <<"a">>, <<"BT">>}

StripInputs == Words(TextPieces, MaxPieces)

\* '```markdown\n' + text + '\n```'
Wrap(t) == Fence \o MdTag \o <<"LF">> \o t \o <<"LF">> \o Fence

PipeFixed == /\ pc = [p \in Procs |-> "idle"] /\ apiKey = <<"k">>
             /\ notices = [p \in Procs |-> <<>>] /\ calls = [p \in Procs |-> <<>>]
             /\ startResp = [p \in Procs |-> NoStart] /\ uploadResp = [p \in Procs |-> NoUpload]
             /\ genResp = [p \in Procs |-> NoGen] /\ pending = [p \in Procs |-> NoPending]
             /\ vault = [q \in OutPaths |-> [kind |-> "none", content |-> <<>>]]
             /\ writes = <<>>
             /\ keyAtInvoke = [p \in Procs |-> NoKey] /\ keyRead = [p \in Procs |-> NoKey]
             /\ temperature = FromTenths(DefaultTemperature \div (Scale \div 10)) /\ sliderVal = DefaultTemperature

StripInit ==
  /\ PipeFixed
  /\ sx \in StripInputs /\ sr1 = <<>> /\ sr2 = <<>> /\ swr = <<>>
  /\ px = <<>> /\ pout = <<>> /\ fnPhase = "init"

StripOnce ==
  /\ fnPhase = "init"
  /\ sr1' = Strip(sx)
  /\ swr' = Strip(Wrap(sx))
  /\ fnPhase' = "once"
  /\ UNCHANGED <<pipeVars, setVars, sx, sr2, px, pout>>

StripAgain ==
  /\ fnPhase = "once"
  /\ sr2' = Strip(sr1)
  /\ fnPhase' = "twice"
  /\ UNCHANGED <<pipeVars, setVars, sx, sr1, swr, px, pout>>

StripSpec == StripInit /\ [][StripOnce \/ StripAgain]_vars

PathPieces == {<<"a">>, <<"/">>, PdfExt, <<".", "P", "D", "F">>, <<".", "p", "D", "f">>,
               <<"r", "e", "p", "o", "r", "t">>}

ExamplePath == <<"a", "/", "b", "/", "r", "e", "p", "o", "r", "t", ".", "P", "D", "F">>

ExampleOut == <<"a", "/", "b", "/", "r", "e", "p", "o", "r", "t", ".", "m", "d">>

PathInputs == Words(PathPieces, MaxPieces) \cup {ExamplePath}

PathInit ==
  /\ PipeFixed
  /\ sx = <<>> /\ sr1 = <<>> /\ sr2 = <<>> /\ swr = <<>>
  /\ px \in PathInputs /\ pout = <<>> /\ fnPhase = "init"

MapPath ==
  /\ fnPhase = "init"
  /\ pout' = ToMd(px)
  /\ fnPhase' = "mapped"
  /\ UNCHANGED <<pipeVars, setVars, sx, sr1, sr2, swr, px>>

PathSpec == PathInit /\ [][MapPath]_vars

\* ---------------------------------------------------------------------
\* Properties
\* ---------------------------------------------------------------------

Range(f) == {f[i] : i \in DOMAIN f}

WritesOf(p) == {i \in 1..Len(writes) : writes[i].p = p}

Succeeded(p) == Progress("Converted") \in Range(notices[p])

CallPrefixes == {SubSeq(<<"start", "upload", "generate">>, 1, k) : k \in 0..3}

\* C1: the network calls of one invocation happen in the order session
\* start, upload/finalize, generateContent, each at most once and only after
\* every earlier step succeeded; a write happens only after a generation with
\* candidates, with the stripped candidate text; a session start answered
\* with HTTP 500 ends the run after exactly one call with a notice carrying 500.
LinearPipeline ==
  \A p \in Procs :
    /\ calls[p] \in CallPrefixes
    /\ Len(calls[p]) >= 2 =>
         startResp[p].net /\ startResp[p].status = 200 /\ startResp[p].url
    /\ Len(calls[p]) >= 3 =>
         uploadResp[p].net /\ uploadResp[p].status = 200 /\ uploadResp[p].body = "uri"
    /\ \A i \in WritesOf(p) :
         /\ Len(calls[p]) = 3
         /\ genResp[p].net /\ genResp[p].status = 200
         /\ genResp[p].body.kind = "candidates"
         /\ writes[i].content = Strip(Join(genResp[p].body.parts))
    /\ (pc[p] = "done" /\ startResp[p].status = 500) =>
         /\ calls[p] = <<"start">>
         /\ \E n \in Range(notices[p]) : n.st = 500

LinearPipelineWitness ==
  \E p \in Procs : pc[p] = "done" /\ Len(calls[p]) = 3 /\ WritesOf(p) # {}
                   /\ \E q \in Procs : startResp[q].status = 500 /\ pc[q] = "done"

\* An API key made only of JavaScript white space or line terminators.
BlankKey(k) ==
  \A c \in Range(k) : c \in {"TAB", "VT", "FF", " ", "NBSP", "ZWNBSP", "ZS", "LF", "CR", "LS", "PS"}

\* C2 (original): when settings.apiKey is blank or whitespace-only at the
\* moment convertFile is invoked, the invocation issues no network call,
\* writes nothing and shows the notice asking for the API key.
BlankKeyAsksForKey ==
  \A p \in Procs :
    (BlankKey(keyAtInvoke[p]) /\ pc[p] = "done") =>
      /\ calls[p] = <<>>
      /\ WritesOf(p) = {}
      /\ Progress("SetApiKey") \in Range(notices[p])

\* C2 (amended): when the settings.apiKey that convertFile reads after the
\* source file was read is blank or whitespace-only, the invocation issues
\* no network call, writes nothing and shows exactly the notice asking for
\* the API key (after the 'Converting' notice).
BlankKeyNoCall ==
  \A p \in Procs :
    (BlankKey(keyRead[p]) /\ pc[p] = "done") =>
      /\ calls[p] = <<>>
      /\ WritesOf(p) = {}
      /\ notices[p] = <<Progress("Converting"), Progress("SetApiKey")>>

BlankKeyWitness ==
  \E p \in Procs : keyRead[p] # <<>> /\ BlankKey(keyRead[p]) /\ pc[p] = "done"
                   /\ Progress("SetApiKey") \in Range(notices[p])

\* C3: a successful generateContent response whose candidates are missing
\* or empty ends the run with the 'No candidates returned' error notice and
\* no vault write.
NoCandidatesNoWrite ==
  \A p \in Procs :
    (pc[p] = "done" /\ genResp[p].net /\ genResp[p].status = 200
       /\ genResp[p].body.kind \in {"noCandidates", "emptyCandidates"}) =>
      /\ ErrorNotice("No candidates returned") \in Range(notices[p])
      /\ WritesOf(p) = {}

NoCandidatesWitness ==
  \E p \in Procs : pc[p] = "done" /\ genResp[p].body.kind = "emptyCandidates"

\* Notices that report a failure.
FailKinds == {"SetApiKey", "UploadStartFailed", "NoUploadUrl", "UploadContentFailed",
              "NoFileUri", "GenerateFailed", "ErrorConverting"}

FailNotices(p) == {i \in DOMAIN notices[p] : notices[p][i].k \in FailKinds}

\* The response to the last network call of p, if any.
LastResp(p) == CASE Len(calls[p]) = 1 -> [net |-> startResp[p].net, status |-> startResp[p].status]
                 [] Len(calls[p]) = 2 -> [net |-> uploadResp[p].net, status |-> uploadResp[p].status]
                 [] Len(calls[p]) = 3 -> [net |-> genResp[p].net, status |-> genResp[p].status]
                 [] OTHER -> [net |-> FALSE, status |-> 0]

\* C4 (original): every failing invocation shows exactly one failure notice,
\* carrying the remote status code and response body whenever the failure
\* was detected on a received response, and writes nothing to the vault.
OneFailureNoticeWithContext ==
  \A p \in Procs :
    (pc[p] = "done" /\ ~Succeeded(p)) =>
      /\ Cardinality(FailNotices(p)) = 1
      /\ WritesOf(p) = {}
      /\ (LastResp(p).net /\ pending[p].op = "none") =>
           \A i \in FailNotices(p) : notices[p][i].st # 0 /\ notices[p][i].bd # ""

\* C4 (amended): every failing invocation shows exactly one failure notice
\* and writes nothing to the vault; the notice carries a status code and a
\* response body exactly when the failure is a non-success HTTP status
\* (upload start, upload content, generate content), and then it carries
\* that status; the other failures show only a fixed text or the message of
\* the caught exception.
OneFailureNotice ==
  \A p \in Procs :
    (pc[p] = "done" /\ ~Succeeded(p)) =>
      /\ Cardinality(FailNotices(p)) = 1
      /\ WritesOf(p) = {}
      /\ \A i \in FailNotices(p) :
           /\ (notices[p][i].st # 0) <=> (LastResp(p).net /\ LastResp(p).status # 200)
           /\ notices[p][i].st # 0 => notices[p][i].st = LastResp(p).status /\ notices[p][i].bd # ""

OneFailureNoticeWitness ==
  \E p, q \in Procs :
    /\ pc[p] = "done" /\ Progress("FileUploaded") \in Range(notices[p])
    /\ Notice("GenerateFailed", 500, "generateText", "") \in Range(notices[p])
    /\ pc[q] = "done" /\ ErrorNotice("No candidates returned") \in Range(notices[q])

\* C5: a successful session start without an upload URL ends with the
\* 'No upload URL returned' notice; a successful upload whose body has no
\* file URI (also when it has no 'file' object) ends with the 'No file URI
\* returned' notice, not with the generic error notice.
MissingIdsClassified ==
  \A p \in Procs :
    pc[p] = "done" =>
      /\ (startResp[p].net /\ startResp[p].status = 200 /\ ~startResp[p].url) =>
           Progress("NoUploadUrl") \in Range(notices[p])
      /\ (uploadResp[p].net /\ uploadResp[p].status = 200
            /\ uploadResp[p].body \in {"emptyUri", "noFile"}) =>
           /\ Progress("NoFileUri") \in Range(notices[p])
           /\ \A n \in Range(notices[p]) : n.k # "ErrorConverting"

\* C6 (original): the fence strip is idempotent: strip(strip(x)) = strip(x).
StripIdempotent == fnPhase = "twice" => sr2 = sr1

\* C6 (amended): strip(strip(x)) = strip(x) exactly when strip(x) neither
\* begins nor ends with ```; a ``` inside the text (an inner code block) is
\* left alone, while one at either end is removed by the second application
\* (a``````, nine backticks: the first strip leaves a```, the second a).
EndsWith(s, t) == Len(s) >= Len(t) /\ SubSeq(s, Len(s) - Len(t) + 1, Len(s)) = t

StripIdempotentUnlessFenceAtEnd ==
  fnPhase = "twice" =>
    (sr2 = sr1 <=> ~StartsWith(sr1, Fence) /\ ~EndsWith(sr1, Fence))

StripIdempotentWitness ==
  /\ fnPhase = "twice" /\ StartsWith(sx, Fence) /\ sr1 # sx
  /\ Contains(sr1, Fence) /\ ~StartsWith(sr1, Fence) /\ ~EndsWith(sr1, Fence)

\* C7 (original): strip('```markdown\n' + text + '\n```') = text for every text.
StripWrapRoundTrip == fnPhase \in {"once", "twice"} => swr = sx

\* C7 (amended): strip('```markdown\n' + text + '\n```') = text for every
\* text that does not end with a carriage return; a text ending with '\r'
\* comes back without that final '\r'.
StripWrapRoundTripNoFinalCR ==
  fnPhase \in {"once", "twice"} =>
    IF sx # <<>> /\ sx[Len(sx)] = "CR" THEN swr = SubSeq(sx, 1, Len(sx) - 1)
    ELSE swr = sx

StripWrapWitness ==
  fnPhase = "once" /\ Len(sx) > 0 /\ sx[Len(sx)] = "LF" /\ StartsWith(sx, Fence)

\* C9: the output path replaces a trailing, case-insensitive '.pdf' by '.md'
\* and leaves every other path unchanged; a/b/report.PDF maps to a/b/report.md.
OutputPathMapping ==
  fnPhase = "mapped" =>
    /\ IF Len(px) >= 4 /\ LowerSeq(SubSeq(px, Len(px) - 3, Len(px))) = <<".", "p", "d", "f">>
       THEN pout = SubSeq(px, 1, Len(px) - 4) \o <<".", "m", "d">>
       ELSE pout = px
    /\ px = ExamplePath => pout = ExampleOut

OutputPathWitness ==
  /\ fnPhase = "mapped" /\ pout # px
  /\ px[Len(px)] = "F"
  /\ Contains(SubSeq(px, 1, Len(px) - 4), PdfExt)

\* C8 (original): with three successful calls and the single generated part
\* '```markdown\n# Title\n```', the file written at the sibling .md path holds
\* exactly '# Title\n', and an existing file there is overwritten with it.
TitleScenario ==
  \A i \in 1..Len(writes) :
    genResp[writes[i].p].body.parts = <<FencedTitle>> =>
      /\ writes[i].content = Title \o <<"LF">>
      /\ writes[i].path = ToMd(Src[writes[i].p])
      /\ writes[i].found = "file" => writes[i].op = "modify"

\* C8 (amended): in that scenario the file written at the sibling .md path
\* holds exactly '# Title' (the newline before the closing fence is removed
\* with it), and an existing file there is overwritten with the same text.
TitleScenarioNoNewline ==
  \A i \in 1..Len(writes) :
    genResp[writes[i].p].body.parts = <<FencedTitle>> =>
      /\ writes[i].content = Title
      /\ writes[i].path = ToMd(Src[writes[i].p])
      /\ writes[i].found = "file" => writes[i].op = "modify"

TitleScenarioWitness ==
  \E i \in 1..Len(writes) :
    /\ genResp[writes[i].p].body.parts = <<FencedTitle>>
    /\ writes[i].op = "modify" /\ writes[i].found = "file"

\* C10: a successful invocation writes exactly once, at the mapped output
\* path; it modifies the file found there and creates one otherwise; an
\* invocation that found an existing file never fails at the write.
SingleWriteOverwrite ==
  \A p \in Procs :
    /\ Cardinality(WritesOf(p)) <= 1
    /\ (pc[p] = "done" /\ Succeeded(p)) => Cardinality(WritesOf(p)) = 1
    /\ \A i \in WritesOf(p) :
         /\ writes[i].path = ToMd(Src[p])
         /\ writes[i].found = "file" => writes[i].op = "modify"
         /\ writes[i].found = "none" => writes[i].op = "create"
    /\ (pc[p] = "done" /\ pending[p].found = "file") =>
         /\ Succeeded(p)
         /\ \A i \in WritesOf(p) : writes[i].op = "modify"

SingleWriteOverwriteWitness ==
  \E i, j \in 1..Len(writes) :
    /\ writes[i].op = "create" /\ writes[i].found = "none"
    /\ writes[j].op = "modify" /\ writes[j].found = "file"

\* C11: two interleaved conversions with the same output path end with the
\* file holding the content of the last write, and neither fails because of
\* the other: a conversion fails at the write only when a folder occupies
\* the path, also when both found the path absent and both create it.
LastWriterWinsNoFailure ==
  /\ Len(writes) > 0 =>
       vault[writes[Len(writes)].path].content = writes[Len(writes)].content
  /\ \A p \in Procs : ErrorNotice("FileExists") \in Range(notices[p]) =>
       pending[p].found = "folder"

LastWriterWinsWitness ==
  /\ Len(writes) = 2
  /\ writes[1].op = "create" /\ writes[2].op = "create"
  /\ writes[1].content # writes[2].content
  /\ \A p \in Procs : pc[p] = "done" /\ Succeeded(p)

StageNoticeKinds == {"SessionStarted", "Uploading", "Waiting", "ResponseReceived"}

StageOrder == <<"SessionStarted", "Uploading", "Waiting", "ResponseReceived">>

IsStageNotice(n) == n.k \in StageNoticeKinds

StageNotices(p) == [i \in 1..Len(SelectSeq(notices[p], IsStageNotice)) |->
                      SelectSeq(notices[p], IsStageNotice)[i].k]

\* C12: within one invocation the progress notices 'Upload session started',
\* 'Uploading file...', 'Waiting for API response...' and 'API response
\* received, generating markdown...' appear in this order, each at most
\* once, and each only after its stage was reached: no later-stage notice
\* follows a failure of an earlier stage.
ProgressNoticeOrder ==
  \A p \in Procs :
    /\ StageNotices(p) \in {SubSeq(StageOrder, 1, k) : k \in 0..4}
    /\ Len(StageNotices(p)) >= 1 =>
         startResp[p].net /\ startResp[p].status = 200
    /\ Len(StageNotices(p)) >= 2 => startResp[p].url
    /\ Len(StageNotices(p)) >= 3 =>
         uploadResp[p].net /\ uploadResp[p].status = 200 /\ uploadResp[p].body = "uri"
    /\ Len(StageNotices(p)) >= 4 =>
         genResp[p].net /\ genResp[p].status = 200

ProgressNoticeWitness ==
  \E p, q \in Procs :
    /\ Len(StageNotices(p)) = 4
    /\ Len(StageNotices(q)) = 1 /\ pc[q] = "done"

\* ---------------------------------------------------------------------
\* Settings tab: the Temperature slider and text field
\* ---------------------------------------------------------------------

Digits == {"0", "1", "2", "3", "4", "5", "6", "7", "8", "9"}

DigitVal(c) == CASE c = "0" -> 0 [] c = "1" -> 1 [] c = "2" -> 2 [] c = "3" -> 3
                 [] c = "4" -> 4 [] c = "5" -> 5 [] c = "6" -> 6 [] c = "7" -> 7
                 [] c = "8" -> 8 [] OTHER -> 9

\* Length of the run of digits s starts with.
DigitRun(s) ==
  CHOOSE k \in 0..Len(s) : (\A j \in 1..k : s[j] \in Digits) /\ (k = Len(s) \/ s[k + 1] \notin Digits)

RECURSIVE DigitsVal(_)
DigitsVal(s) == IF s = <<>> THEN 0 ELSE DigitsVal(SubSeq(s, 1, Len(s) - 1)) * 10 + DigitVal(s[Len(s)])

InfinityWord == <<"I", "n", "f", "i", "n", "i", "t", "y">>

\* Exponents beyond this magnitude give Infinity or 0 for every mantissa
\* shorter than 10^5 digits; longer exponent digit runs saturate here (this
\* only keeps integers small).
MaxExponent == 999999

\* parseFloat(value): leading white space and line terminators, an optional
\* sign, then 'Infinity' or the longest prefix digits [. digits] or
\* . digits, followed by an optional exponent e|E [+|-] digits (ignored when
\* it has no digit); NaN when no such prefix exists.
ParseFloat(s) ==
  LET t == TrimStart(s)
      neg == t # <<>> /\ Head(t) = "-"
      u == IF t # <<>> /\ Head(t) \in {"-", "+"} THEN Tail(t) ELSE t
      intLen == DigitRun(u)
      rest == Drop(u, intLen)
      hasDot == rest # <<>> /\ Head(rest) = "."
      fracLen == IF hasDot THEN DigitRun(Tail(rest)) ELSE 0
      frac == IF hasDot THEN SubSeq(Tail(rest), 1, fracLen) ELSE <<>>
      after == IF hasDot THEN Drop(Tail(rest), fracLen) ELSE rest
      mant == SubSeq(u, 1, intLen) \o frac
      hasE == after # <<>> /\ Head(after) \in {"e", "E"}
      eRest == IF hasE THEN Tail(after) ELSE <<>>
      eNeg == eRest # <<>> /\ Head(eRest) = "-"
      eDigits == IF eRest # <<>> /\ Head(eRest) \in {"+", "-"} THEN Tail(eRest) ELSE eRest
      eLen == DigitRun(eDigits)
      eSig == StripZeros([i \in 1..eLen |-> DigitVal(eDigits[i])])
      eMag == IF Len(eSig) > 6 THEN MaxExponent ELSE DigitsVal(SubSeq(eDigits, eLen - Len(eSig) + 1, eLen))
      ex == IF hasE /\ eLen > 0 THEN (IF eNeg THEN -eMag ELSE eMag) ELSE 0
  IN IF StartsWith(u, InfinityWord)
     THEN InfValue(neg)
     ELSE IF intLen = 0 /\ fracLen = 0
     THEN NaNValue
     ELSE ToDouble(NormNum(neg, [i \in 1..Len(mant) |-> DigitVal(mant[i])], intLen + ex))

\* The value of a sequence of decimal digit values.
RECURSIVE ValueOf(_)
ValueOf(ds) == IF ds = <<>> THEN 0 ELSE ValueOf(SubSeq(ds, 1, Len(ds) - 1)) * 10 + ds[Len(ds)]

Two == FromTenths(20)

\* slider.setLimits(0, 2, 0.1)
SliderMin == 0

SliderMax == 2 * Scale

SliderStep == Scale \div 10

SliderValues == {k * SliderStep : k \in 0..(SliderMax \div SliderStep)}

\* The number each slider position holds, computed once.
SliderNumber == [v \in SliderValues |-> FromTenths(v \div SliderStep)]

\* String(num) for a finite positive double n (Number::toString): the
\* fewest significant digits k whose decimal reads back as n; of two such
\* k-digit decimals the nearer to n, and of two equally near the even one.
\* The candidates are n cut to k digits and that plus one unit in the k-th
\* digit.
DigitPrefix(n, k) == [i \in 1..k |-> PadDigit(n.ds, i)]

CandidateAbove(neg, p, ex, k) == NormNum(neg, p, ex + Len(p) - k)

PreferAbove(n, k) ==
  \/ CmpDigits(SubSeq(n.ds, k + 1, Len(n.ds)), <<5>>) > 0
  \/ CmpDigits(SubSeq(n.ds, k + 1, Len(n.ds)), <<5>>) = 0 /\ PadDigit(n.ds, k) % 2 = 1

PickCandidate(below, above, belowOk, aboveOk, preferAbove) ==
  IF belowOk /\ aboveOk THEN (IF preferAbove THEN above ELSE below)
  ELSE IF belowOk THEN below ELSE above

RECURSIVE ShortestFrom(_, _)
ShortestFrom(n, k) ==
  IF Len(n.ds) <= k THEN n
  ELSE LET below == NormNum(n.neg, DigitPrefix(n, k), n.ex)
           above == CandidateAbove(n.neg, MulAdd(DigitPrefix(n, k), 1, 1), n.ex, k)
       IN IF ToDouble(below) = n \/ ToDouble(above) = n
          THEN PickCandidate(below, above, ToDouble(below) = n, ToDouble(above) = n, PreferAbove(n, k))
          ELSE ShortestFrom(n, k + 1)

ShortestDecimal(n) == ShortestFrom(n, 1)

\* The step the slider settles on for the decimal d with 0 < d < 2: d * 10
\* = 0.d1 d2 ... * 10^(ex + 1), ex + 1 <= 1, rounded to the nearest integer,
\* ties upwards; in thousandths.
RoundToStep(d) ==
  LET e == d.ex + 1
      dg(i) == IF i >= 1 /\ i <= Len(d.ds) THEN d.ds[i] ELSE 0
      whole == IF e <= 0 THEN 0 ELSE ValueOf([i \in 1..e |-> dg(i)])
      next == IF e < 0 THEN 0 ELSE dg(e + 1)
  IN (whole + (IF next >= 5 THEN 1 ELSE 0)) * SliderStep

\* sliderEl.value = String(num) on an <input type=range>: the string's
\* number is clamped to the limits and rounded to the nearest step, ties
\* upwards; 'Infinity' / '-Infinity' is not a valid floating-point number,
\* so the value falls back to the default, the midpoint of the limits.
\* The result is in thousandths.
SliderSanitize(n) ==
  IF n.inf # 0 THEN (SliderMin + SliderMax) \div 2
  ELSE IF n.ds = <<>> \/ n.neg THEN SliderMin
  ELSE IF CmpMag(n, Two) >= 0 THEN SliderMax
  ELSE IF CmpMag(n, NormNum(FALSE, <<4>>, -1)) < 0 THEN SliderMin \* String(n) < 0.05 too
  ELSE RoundToStep(ShortestDecimal(n))

MaxTextLen == 3

ExtraTextInputs == {InfinityWord, <<"1", "e", "2">>, <<"5", "e", "-", "1">>,
                    <<"2", "E", "+", "0">>, <<"1", "e", "-">>, <<"FF", "1">>,
                    <<"2", ".", "0", "0", "0", "5">>, <<"-", "0", ".", "0", "0", "0", "1">>,
                    <<"1", "e", "4", "0", "0">>, <<"1", "e", "-", "4", "0", "0">>}

TextInputs == Words({<<"0">>, <<"1">>, <<"2">>, <<"5">>, <<"-">>, <<".">>}, MaxTextLen)
              \cup ExtraTextInputs

\* slider.onChange: settings.temperature = value; textControl.setValue(..);
\* saveSettings()
SliderChange ==
  /\ \E v \in SliderValues :
       /\ temperature' = SliderNumber[v]
       /\ sliderVal' = v
  /\ UNCHANGED <<pipeVars, fnVars>>

\* parseFloat(value) for every value the text field is given, computed once.
ParsedText == [value \in TextInputs |-> ParseFloat(value)]

\* The slider position each of those values leads to, computed once.
SliderOfText == [value \in TextInputs |-> SliderSanitize(ParsedText[value])]

\* text.onChange: num = parseFloat(value); if (!isNaN(num)) {
\* settings.temperature = num; sliderControl.setValue(num); saveSettings() }.
\* Whether the host reports the value the slider settles on back through
\* the slider's onChange is not fixed by the source: both outcomes.
TextChange ==
  /\ \E value \in TextInputs :
       LET num == ParsedText[value]
       IN IF num.nan
          THEN UNCHANGED setVars
          ELSE /\ sliderVal' = SliderOfText[value]
               /\ \E echoed \in BOOLEAN :
                    temperature' = IF echoed THEN SliderNumber[SliderOfText[value]]
                                   ELSE num
  /\ UNCHANGED <<pipeVars, fnVars>>

SettingsInit ==
  /\ PipeFixed
  /\ sx = <<>> /\ sr1 = <<>> /\ sr2 = <<>> /\ swr = <<>>
  /\ px = <<>> /\ pout = <<>> /\ fnPhase = "none"

SettingsSpec == SettingsInit /\ [][SliderChange \/ TextChange]_vars

\* C13: after any sequence of slider changes and temperature text entries,
\* settings.temperature is a number within [0, 2].
TemperatureInRange ==
  /\ ~temperature.nan /\ temperature.inf = 0
  /\ temperature.ds = <<>> \/ ~temperature.neg
  /\ CmpMag(temperature, Two) <= 0

====
